---- MODULE Spec2Model ----
(***************************************************************************)
(* Model of surf's Retry-After middleware                                  *)
(* (src/middleware/retry_after/mod.rs): one invocation of                  *)
(* RetryAfter::handle, from the loop test to the value it returns.         *)
(*                                                                         *)
(* Durations are std::time::Duration values (whole seconds and             *)
(* nanoseconds).  The two limit tests of handle compare f32 values, so     *)
(* f32 is modelled as well: a value is m * 2^e with a 24 bit significand   *)
(* and every operation rounds to nearest, ties to even.                    *)
(***************************************************************************)
EXTENDS Integers, Sequences, FiniteSets, TLC

\* ------------------------------------------------------------------ bounds
\* largest value of `attempts` a policy of the model takes
MaxAttempts == 3
\* cap on the number of sends of one invocation (the loop need not stop)
MaxSends == 4

\* ---------------------------------------------------------------- Duration
NANOS_PER_SEC == 10^9

Duration(s, n) == [secs |-> s, nanos |-> n]

ZERO == Duration(0, 0)

\* an addition that keeps whole seconds only
DurationAdd_SecsOnly(a, b) == Duration(a.secs + b.secs, a.nanos)

\* accumulated_duration += delay
DurationAdd(a, b) ==
    LET n == a.nanos + b.nanos
    IN  IF n >= NANOS_PER_SEC
        THEN Duration(a.secs + b.secs + 1, n - NANOS_PER_SEC)
        ELSE Duration(a.secs + b.secs, n)

\* a <= b on exact durations (used by the properties only)
DurationLeq(a, b) ==
    a.secs < b.secs \/ (a.secs = b.secs /\ a.nanos <= b.nanos)

\* --------------------------------------------------------------------- f32
F32(m, e) == [m |-> m, e |-> e]

\* round q + rem/d to an integer, nearest, ties to even (twiceRem = 2*rem)
RoundNearestEven(q, twiceRem, d) ==
    IF twiceRem > d \/ (twiceRem = d /\ q % 2 = 1) THEN q + 1 ELSE q

\* a rounded significand of 2^24 carries into the exponent
Renorm(m, e) == IF m = 2^24 THEN F32(2^23, e + 1) ELSE F32(m, e)

RECURSIVE ShiftUp(_, _)
ShiftUp(m, e) == IF m >= 2^23 THEN F32(m, e) ELSE ShiftUp(2 * m, e - 1)

RECURSIVE BitsOver(_)
BitsOver(x) == IF x < 2^24 THEN 0 ELSE 1 + BitsOver(x \div 2)

\* `x as f32` for an unsigned integer x
int_as_f32(x) ==
    IF x = 0 THEN F32(0, 0)
    ELSE IF x < 2^24 THEN ShiftUp(x, 0)
    ELSE LET s == BitsOver(x)
             d == 2^s
         IN  Renorm(RoundNearestEven(x \div d, 2 * (x % d), d), s)

RECURSIVE LongDiv(_, _, _, _)
LongDiv(q, r, d, k) ==
    IF k = 0 THEN <<q, r>>
    ELSE IF 2 * r >= d THEN LongDiv(2 * q + 1, 2 * r - d, d, k - 1)
         ELSE LongDiv(2 * q, 2 * r, d, k - 1)

\* a / b on f32, b > 0
f32_div(a, b) ==
    IF a.m = 0 THEN F32(0, 0)
    ELSE LET k  == IF a.m >= b.m THEN 23 ELSE 24
             qr == LongDiv(a.m \div b.m, a.m % b.m, b.m, k)
         IN  Renorm(RoundNearestEven(qr[1], 2 * qr[2], b.m), a.e - b.e - k)

\* a + b on f32, both >= 0
f32_add(a, b) ==
    IF a.m = 0 THEN b
    ELSE IF b.m = 0 THEN a
    ELSE LET hi == IF a.e >= b.e THEN a ELSE b
             lo == IF a.e >= b.e THEN b ELSE a
             d  == hi.e - lo.e
         IN  IF d > 25 THEN hi
             ELSE LET p == 2^d
                      I == hi.m + (lo.m \div p)
                      R == lo.m % p
                  IN  IF I < 2^24
                      THEN Renorm(RoundNearestEven(I, 2 * R, p), hi.e)
                      ELSE Renorm(RoundNearestEven(I \div 2,
                                      2 * ((I % 2) * p + R), 2 * p), hi.e + 1)

\* a comparison that also holds for equal values: a <= b
f32_lt_OrEqual(a, b) ==
    IF a.m = 0 THEN TRUE
    ELSE b.m > 0 /\ (a.e < b.e \/ (a.e = b.e /\ a.m <= b.m))

\* a < b on f32, both >= 0
f32_lt(a, b) ==
    IF a.m = 0 THEN b.m > 0
    ELSE b.m > 0 /\ (a.e < b.e \/ (a.e = b.e /\ a.m < b.m))

\* Duration::as_secs_f32:
\*   (secs as f32) + (nanos as f32) / (NANOS_PER_SEC as f32)
as_secs_f32(d) ==
    f32_add(int_as_f32(d.secs),
            f32_div(int_as_f32(d.nanos), int_as_f32(NANOS_PER_SEC)))

\* ------------------------------------------------------ Retry-After values
\* A header value is a string, written as the sequence of its characters.
Some(v) == [some |-> TRUE, val |-> v]

None == [some |-> FALSE, val |-> 0]

DigitChars == <<"0", "1", "2", "3", "4", "5", "6", "7", "8", "9">>

IsDigit(c) == \E i \in 1..10 : DigitChars[i] = c

DigitVal(c) == (CHOOSE i \in 1..10 : DigitChars[i] = c) - 1

RECURSIVE parse_digits(_, _)
parse_digits(s, acc) ==
    IF s = <<>> THEN Some(acc)
    ELSE IF ~IsDigit(Head(s)) THEN None
    ELSE parse_digits(Tail(s), 10 * acc + DigitVal(Head(s)))

\* str::parse::<u64>: an optional '+', then one digit or more and nothing
\* else.  The values of the model have at most three digits, far below 2^64.
parse_u64(s) ==
    IF s = <<>> THEN None
    ELSE LET digits == IF Head(s) = "+" THEN Tail(s) ELSE s
         IN  IF digits = <<>> THEN None ELSE parse_digits(digits, 0)

\* "Wed, 21 Oct 2015 07:28:00 GMT"
HTTP_DATE ==
    <<"W", "e", "d", ",", " ", "2", "1", " ", "O", "c", "t", " ",
      "2", "0", "1", "5", " ", "0", "7", ":", "2", "8", ":", "0", "0", " ",
      "G", "M", "T">>

\* "not-a-number-or-date"
NOT_A_NUMBER_OR_DATE ==
    <<"n", "o", "t", "-", "a", "-", "n", "u", "m", "b", "e", "r", "-",
      "o", "r", "-", "d", "a", "t", "e">>

\* time::strptime under the three formats, then to_timespec().sec, on the
\* header values of the model: HTTP_DATE is the only one a format matches.
strptime(s) == IF s = HTTP_DATE THEN Some(1445412480) ELSE None

\* a difference that is not clamped: the distance between the two times
duration_until_Abs(sec, now) ==
    IF DurationLeq(Duration(sec, 0), now)
    THEN Duration(now.secs - sec, now.nanos)
    ELSE IF now.nanos = 0 THEN Duration(sec - now.secs, 0)
    ELSE Duration(sec - now.secs - 1, NANOS_PER_SEC - now.nanos)

\* NaiveDateTime::from_timestamp(sec, 0).signed_duration_since(now)
\*     .to_std().unwrap_or(Duration::ZERO)
duration_until(sec, now) ==
    IF DurationLeq(Duration(sec, 0), now) THEN ZERO
    ELSE IF now.nanos = 0 THEN Duration(sec - now.secs, 0)
    ELSE Duration(sec - now.secs - 1, NANOS_PER_SEC - now.nanos)

\* a date parser that answers a zero delay where no format matches
delay_from_date_str_Lenient(s, now) ==
    LET t == strptime(s)
    IN  IF t.some THEN Some(duration_until(t.val, now)) ELSE Some(ZERO)

\* delay_from_date_str(s), with the value Utc::now() has when it runs
delay_from_date_str(s, now) ==
    LET t == strptime(s)
    IN  IF t.some THEN Some(duration_until(t.val, now)) ELSE None

\* the `delay` of handle: integer seconds first, a date second
parse_delay(s, now) ==
    LET delay_sec == parse_u64(s)
    IN  IF delay_sec.some THEN Some(Duration(delay_sec.val, 0))
        ELSE delay_from_date_str(s, now)

\* ------------------------------------------------------------------ inputs
\* the requests handle is called with
Requests ==
    { [method |-> "GET",  url |-> "https://example.org/a"],
      [method |-> "POST", url |-> "https://example.org/b"] }

\* a clone that rebuilds the request with the default method
clone_Get(r) == [method |-> "GET", url |-> r.url]

\* req.clone()
clone(r) == [method |-> r.method, url |-> r.url]

\* a list of codes that also holds 200 OK
RETRY_AFTER_CODES_With200 == {200, 301, 429, 503}

\* 301 Moved Permanently, 429 Too Many Requests, 503 Service Unavailable
RETRY_AFTER_CODES == {301, 429, 503}

Statuses == {200, 301, 429, 503}

HeaderValues ==
    { <<"0">>, <<"1">>, <<"5">>, <<"+", "1">>, <<"-", "1">>,
      <<"1", "0", "0">>, HTTP_DATE, NOT_A_NUMBER_OR_DATE }

\* the values of the Retry-After header of a response, in order: none,
\* one, or a repeated header
Headers ==
    {<<>>} \cup { <<v>> : v \in HeaderValues }
           \cup { <<NOT_A_NUMBER_OR_DATE, <<"1">> >> }

\* the responses client.send can produce
Responses ==
    { [status |-> s, header |-> h, via |-> "send"] :
          s \in Statuses, h \in Headers }

\* the responses the rest of the middleware stack can produce
NextResponses ==
    { [status |-> s, header |-> <<>>, via |-> "next"] : s \in {200, 429} }

NoResponse == [status |-> 0, header |-> <<>>, via |-> "none"]

\* the values Utc::now() can have while a response is inspected: 1 s + 50 ns
\* before HTTP_DATE, 1 s before it, and 10 s after it
Clock ==
    { Duration(1445412478, 999999950), Duration(1445412479, 0),
      Duration(1445412490, 0) }

\* RetryAfter::new(attempts, max_delay_sec, deadline_sec); (3, 30, 60) is
\* RetryAfter::default() when MaxAttempts allows it
Policies ==
    [attempts : 0..MaxAttempts, max_delay_sec : {0, 1, 30},
     deadline_sec : {0, 2, 60}]

\* --------------------------------------------------------------- the state
VARIABLES
    self,                  \* the RetryAfter value: the policy
    original,              \* the request handle was called with
    req,                   \* the local `req`
    count,                 \* the local `count`
    accumulated_duration,  \* the local `accumulated_duration`
    res,                   \* the local `res`: the last response of a send
    pc,                    \* where handle is: "while" (the loop test),
                           \* "send", "sleep", "next" (awaiting that call),
                           \* "run_next" (the loop is left), "returned",
                           \* "cancelled" (the future was dropped)
    exit,                  \* how the loop was left, "none" while it runs
    sends,                 \* the requests given to client.send, in order
    sleeps,                \* the durations given to task::sleep, in order
    nexts,                 \* the requests given to next.run, in order
    failed,                \* history: a client.send of this call failed
    utc_now,               \* history: the last value read from Utc::now()
    result                 \* what handle returned

vars ==
    <<self, original, req, count, accumulated_duration, res, pc, exit,
      sends, sleeps, nexts, failed, utc_now, result>>

NoResult == [ok |-> FALSE, from |-> "none", response |-> NoResponse]

Init ==
    /\ self \in Policies
    /\ original \in Requests
    /\ req = original
    /\ count = 0
    /\ accumulated_duration = ZERO
    /\ res = NoResponse
    /\ pc = "while"
    /\ exit = "none"
    /\ sends = <<>>
    /\ sleeps = <<>>
    /\ nexts = <<>>
    /\ failed = FALSE
    /\ utc_now = ZERO
    /\ result = NoResult

\* ------------------------------------------------------------- the actions
\* a loop that tests after its body: the first send is made untested
LoopSend_DoWhile ==
    /\ pc = "while"
    /\ (count < self.attempts \/ sends = <<>>)
    /\ Len(sends) < MaxSends
    /\ sends' = Append(sends, clone(req))
    /\ pc' = "send"
    /\ UNCHANGED <<self, original, req, count, accumulated_duration, res,
                   exit, sleeps, nexts, failed, utc_now, result>>

\* a loop test that is off by one: `while count <= self.attempts`
LoopSend_OffByOne ==
    /\ pc = "while"
    /\ count <= self.attempts
    /\ Len(sends) < MaxSends
    /\ sends' = Append(sends, clone(req))
    /\ pc' = "send"
    /\ UNCHANGED <<self, original, req, count, accumulated_duration, res,
                   exit, sleeps, nexts, failed, utc_now, result>>

\* `while count < self.attempts` holds: clone the request and send it
LoopSend ==
    /\ pc = "while"
    /\ count < self.attempts
    /\ Len(sends) < MaxSends
    /\ sends' = Append(sends, clone(req))
    /\ pc' = "send"
    /\ UNCHANGED <<self, original, req, count, accumulated_duration, res,
                   exit, sleeps, nexts, failed, utc_now, result>>

\* a loop test that gives up one attempt early:
\* `while count + 1 < self.attempts`
LoopExhausted_Early ==
    /\ pc = "while"
    /\ ~(count + 1 < self.attempts)
    /\ pc' = "run_next"
    /\ exit' = "exhausted"
    /\ UNCHANGED <<self, original, req, count, accumulated_duration, res,
                   sends, sleeps, nexts, failed, utc_now, result>>

\* `while count < self.attempts` fails: the loop is left
LoopExhausted ==
    /\ pc = "while"
    /\ ~(count < self.attempts)
    /\ pc' = "run_next"
    /\ exit' = "exhausted"
    /\ UNCHANGED <<self, original, req, count, accumulated_duration, res,
                   sends, sleeps, nexts, failed, utc_now, result>>

\* a send whose error is dropped: the loop is left as by `break`
SendFails_Swallowed ==
    /\ pc = "send"
    /\ pc' = "run_next"
    /\ failed' = TRUE
    /\ UNCHANGED <<self, original, req, count, accumulated_duration, res,
                   exit, sends, sleeps, nexts, utc_now, result>>

\* client.send(r).await? with an Err: handle returns it
SendFails ==
    /\ pc = "send"
    /\ pc' = "returned"
    /\ failed' = TRUE
    /\ result' = [ok |-> FALSE, from |-> "send", response |-> NoResponse]
    /\ UNCHANGED <<self, original, req, count, accumulated_duration, res,
                   exit, sends, sleeps, nexts, utc_now>>

\* `break`
Break(why) ==
    /\ pc' = "run_next"
    /\ exit' = why

\* the body of the loop from the response of the send to the next await,
\* break or end of the body
Inspect(r, now) ==
    IF r.status \in RETRY_AFTER_CODES
    THEN IF r.header # <<>>
         THEN LET retry_header_value == r.header[Len(r.header)]
                  delay == parse_delay(retry_header_value, now)
              IN  IF delay.some
                  THEN IF f32_lt(int_as_f32(self.max_delay_sec),
                                 as_secs_f32(delay.val))
                       THEN /\ Break("max_delay")
                            /\ UNCHANGED <<count, accumulated_duration,
                                           sleeps>>
                       ELSE LET sum == DurationAdd(accumulated_duration,
                                                   delay.val)
                            IN  /\ accumulated_duration' = sum
                                /\ IF f32_lt(int_as_f32(self.deadline_sec),
                                             as_secs_f32(sum))
                                   THEN /\ Break("deadline")
                                        /\ UNCHANGED <<count, sleeps>>
                                   ELSE /\ count' = (count + 1) % 256
                                        /\ sleeps' = Append(sleeps, delay.val)
                                        /\ pc' = "sleep"
                                        /\ UNCHANGED exit
                  ELSE /\ Break("invalid")
                       /\ UNCHANGED <<count, accumulated_duration, sleeps>>
         ELSE /\ pc' = "while"
              /\ UNCHANGED <<count, accumulated_duration, sleeps, exit>>
    ELSE /\ Break("status")
         /\ UNCHANGED <<count, accumulated_duration, sleeps>>

\* the inspection of r reaches Utc::now() (line 156): r is retryable and
\* the last value of its header is no integer but a date
ReadsClock(r) ==
    /\ r.status \in RETRY_AFTER_CODES
    /\ r.header # <<>>
    /\ ~parse_u64(r.header[Len(r.header)]).some
    /\ strptime(r.header[Len(r.header)]).some

\* client.send(r).await? with a response
SendReturns ==
    /\ pc = "send"
    /\ \E r \in Responses, now \in Clock :
           /\ res' = r
           /\ utc_now' = IF ReadsClock(r) THEN now ELSE utc_now
           /\ Inspect(r, now)
    /\ UNCHANGED <<self, original, req, sends, nexts, failed, result>>

\* a sleep on a detached timer: it resumes the loop although the future
\* of handle was dropped
SleepReturns_Detached ==
    /\ pc \in {"sleep", "cancelled"}
    /\ pc' = "while"
    /\ UNCHANGED <<self, original, req, count, accumulated_duration, res,
                   exit, sends, sleeps, nexts, failed, utc_now, result>>

\* task::sleep(delay).await is over: back to the loop test
SleepReturns ==
    /\ pc = "sleep"
    /\ pc' = "while"
    /\ UNCHANGED <<self, original, req, count, accumulated_duration, res,
                   exit, sends, sleeps, nexts, failed, utc_now, result>>

\* after the loop: next.run(req, client)
RunNext ==
    /\ pc = "run_next"
    /\ nexts' = Append(nexts, req)
    /\ pc' = "next"
    /\ UNCHANGED <<self, original, req, count, accumulated_duration, res,
                   exit, sends, sleeps, failed, utc_now, result>>

\* a handle that answers with the last response of its own sends
NextReturns_LastRes ==
    /\ pc = "next"
    /\ \E r \in NextResponses :
           result' = [ok |-> TRUE, from |-> "next", response |-> res]
    /\ pc' = "returned"
    /\ UNCHANGED <<self, original, req, count, accumulated_duration, res,
                   exit, sends, sleeps, nexts, failed, utc_now>>

\* Ok(next.run(req, client).await?) with a response
NextReturns ==
    /\ pc = "next"
    /\ \E r \in NextResponses :
           result' = [ok |-> TRUE, from |-> "next", response |-> r]
    /\ pc' = "returned"
    /\ UNCHANGED <<self, original, req, count, accumulated_duration, res,
                   exit, sends, sleeps, nexts, failed, utc_now>>

\* a handle that runs the next stage again when it fails
NextFails_Retry ==
    /\ pc = "next"
    /\ pc' = "run_next"
    /\ UNCHANGED <<self, original, req, count, accumulated_duration, res,
                   exit, sends, sleeps, nexts, failed, utc_now, result>>

\* next.run(req, client).await? with an Err
NextFails ==
    /\ pc = "next"
    /\ result' = [ok |-> FALSE, from |-> "next", response |-> NoResponse]
    /\ pc' = "returned"
    /\ UNCHANGED <<self, original, req, count, accumulated_duration, res,
                   exit, sends, sleeps, nexts, failed, utc_now>>

\* the task that polls handle is cancelled: the future is dropped at the
\* await it is suspended in
Cancel ==
    /\ pc \in {"send", "sleep", "next"}
    /\ pc' = "cancelled"
    /\ UNCHANGED <<self, original, req, count, accumulated_duration, res,
                   exit, sends, sleeps, nexts, failed, utc_now, result>>

Next ==
    \/ LoopSend
    \/ LoopExhausted
    \/ SendFails
    \/ SendReturns
    \/ SleepReturns
    \/ RunNext
    \/ NextReturns
    \/ NextFails
    \/ Cancel

Spec == Init /\ [][Next]_vars

\* ---------------------------------------------------------- the properties
\* the status codes the claims call retryable
Retryable(r) == r.status \in {301, 429, 503}

\* a step in which a send of the loop returns a response
Received == pc = "send" /\ pc' \in {"while", "sleep", "run_next"} /\ ~failed'

\* a response of a send: retryable, no Retry-After header
NoHeader(r) == r.via = "send" /\ Retryable(r) /\ r.header = <<>>

\* a response of a send: retryable, its Retry-After value neither a
\* non-negative integer nor an HTTP date
InvalidHeader(r) ==
    /\ r.via = "send"
    /\ Retryable(r)
    /\ r.header # <<>>
    /\ r.header[Len(r.header)] \in {<<"-", "1">>, NOT_A_NUMBER_OR_DATE}

RECURSIVE DurationSum(_)
DurationSum(ds) ==
    IF ds = <<>> THEN ZERO ELSE DurationAdd(Head(ds), DurationSum(Tail(ds)))

\* C1: a retryable response without a Retry-After header takes the loop to
\* Done at once: the step that receives it leaves the loop without a
\* suspension, and no send is made after it.
C1_NoHeaderStops ==
    [][ /\ (Received /\ NoHeader(res'))
            => (pc' = "run_next" /\ sleeps' = sleeps)
        /\ (NoHeader(res) /\ pc # "send") => sends' = sends ]_vars

\* C2: the attempt counter and the number of suspensions never exceed
\* policy.attempts.
C2_AttemptsBounded ==
    /\ count <= self.attempts
    /\ Len(sleeps) <= self.attempts

C2_Witness ==
    /\ self.attempts >= 2
    /\ count = self.attempts
    /\ Len(sleeps) = self.attempts
    /\ exit = "exhausted"

\* C3: every delay slept for is at most policy.maxDelay and the delays
\* slept for add up to at most policy.deadline.
C3_DelaysWithinCaps ==
    /\ \A i \in 1..Len(sleeps) :
           DurationLeq(sleeps[i], Duration(self.max_delay_sec, 0))
    /\ DurationLeq(DurationSum(sleeps), Duration(self.deadline_sec, 0))

\* C4: a response whose status is not 301, 429 or 503 takes the loop to
\* Done at once, whatever its headers and the attempts left: no suspension
\* and no send follow it, and the request goes to the next stage.
C4_NonRetryableStops ==
    [][ /\ (Received /\ ~Retryable(res'))
            => (pc' = "run_next" /\ sleeps' = sleeps /\ count' = count)
        /\ (res.via = "send" /\ ~Retryable(res))
            => /\ sends' = sends
               /\ sleeps' = sleeps
               /\ pc = "run_next" => (nexts' = <<original>> /\ pc' = "next")
      ]_vars

C4_Witness ==
    /\ res.via = "send"
    /\ res.status = 200
    /\ res.header = << <<"1">> >>
    /\ count >= 1
    /\ count < self.attempts
    /\ nexts = <<original>>

C6_InvalidHeaderIsError ==
    [][ (Received /\ InvalidHeader(res'))
            => (pc' = "returned" /\ ~result'.ok) ]_vars

\* C7: when a send of the loop fails, handle returns that error at once:
\* no send, no suspension and no call of the next stage come after it.
C7_SendFailureReturns ==
    [][ failed'
            => /\ pc' = "returned"
               /\ ~result'.ok
               /\ result'.from = "send"
               /\ sends' = sends
               /\ sleeps' = sleeps
               /\ nexts' = <<>> ]_vars

C7_Witness ==
    /\ failed
    /\ pc = "returned"
    /\ Len(sends) >= 2
    /\ Len(sleeps) >= 1

C9_RequestUnchanged ==
    /\ req = original
    /\ \A i \in 1..Len(sends) : sends[i] = original
    /\ \A i \in 1..Len(nexts) : nexts[i] = original

C9_Witness ==
    /\ original.method = "POST"
    /\ Len(sends) >= 2
    /\ Len(sleeps) >= 1
    /\ Len(nexts) = 1

\* C10: on a run without a failed send handle returns the outcome of the
\* next stage, never a response received by a send of the loop.
C10_ResultIsNextOutcome ==
    /\ result.response.via # "send"
    /\ (pc = "returned" /\ ~failed)
           => /\ result.from = "next"
              /\ result.ok => result.response \in NextResponses

C10_Witness ==
    /\ pc = "returned"
    /\ result.ok
    /\ res.via = "send"
    /\ res.status = 200
    /\ result.response.status = 429

\* C11: the loop is left by exhaustion after exactly policy.attempts
\* suspensions; when every send was answered by an accepted delay the loop
\* ends by exhaustion; once count has reached policy.attempts there is no
\* further send and no further suspension.
C11_ExhaustionAfterAttempts ==
    [][ /\ exit' = "exhausted"
            => (count' = self.attempts /\ Len(sleeps') = self.attempts)
        /\ (pc' = "run_next" /\ Len(sleeps') = Len(sends'))
            => exit' = "exhausted"
        /\ count = self.attempts => (sends' = sends /\ sleeps' = sleeps)
      ]_vars

C11_Witness ==
    /\ self.attempts = 1
    /\ exit = "exhausted"
    /\ res.status = 429
    /\ Len(sends) = 1
    /\ Len(sleeps) = 1
    /\ nexts = <<original>>

\* the last value of the Retry-After header of r
LastValue(r) == r.header[Len(r.header)]

\* r is a retryable response of a send whose Retry-After value parses
HasDelay(r, now) ==
    /\ r.via = "send"
    /\ Retryable(r)
    /\ r.header # <<>>
    /\ parse_delay(LastValue(r), now).some

\* C12: a delay above policy.maxDelay, or one that takes the accumulated
\* delay above policy.deadline, never causes a suspension: a suspension
\* that starts is within both caps, and after a rejection by a cap no
\* suspension and no send follow.
C12_OverBudgetNeverWaits ==
    [][ /\ sleeps' # sleeps
            => LET d == sleeps'[Len(sleeps')]
               IN  /\ DurationLeq(d, Duration(self.max_delay_sec, 0))
                   /\ DurationLeq(DurationAdd(DurationSum(sleeps), d),
                                  Duration(self.deadline_sec, 0))
        /\ exit \in {"max_delay", "deadline"}
            => (sleeps' = sleeps /\ sends' = sends)
      ]_vars

\* C13: a Retry-After date at or before the current time gives a delay of
\* exactly zero, which every policy accepts: the attempt is counted, a
\* suspension of zero seconds starts and the loop goes on; an unparsable
\* value leaves the loop without counting an attempt.
C13_PastDateIsZeroDelay ==
    [][ /\ ( /\ Received
             /\ Retryable(res')
             /\ res'.header # <<>>
             /\ LastValue(res') = HTTP_DATE
             /\ DurationLeq(Duration(1445412480, 0), utc_now') )
            => /\ count' = count + 1
               /\ sleeps' = Append(sleeps, ZERO)
               /\ accumulated_duration' = accumulated_duration
               /\ pc' = "sleep"
        /\ (Received /\ InvalidHeader(res'))
            => (count' = count /\ sleeps' = sleeps /\ pc' = "run_next")
        /\ (pc = "sleep" /\ pc' # "cancelled") => pc' = "while"
      ]_vars

C13_Witness ==
    /\ self.max_delay_sec = 0
    /\ self.deadline_sec = 0
    /\ res.via = "send"
    /\ res.header # <<>>
    /\ LastValue(res) = HTTP_DATE
    /\ utc_now = Duration(1445412490, 0)
    /\ count = 2
    /\ sleeps = <<ZERO, ZERO>>
    /\ pc = "send"

\* d1 + ... + dk as <<seconds, nanoseconds>>
RECURSIVE Total(_)
Total(ds) ==
    IF ds = <<>> THEN <<0, 0>>
    ELSE LET r == Total(Tail(ds))
             n == Head(ds).nanos + r[2]
         IN  <<Head(ds).secs + r[1] + (n \div 10^9), n % 10^9>>

\* C14: each suspension lasts exactly the delay parsed from the response
\* just received, and after k accepted delays d1..dk count is k and
\* accumulated_duration is d1 + ... + dk; a suspension that ends is followed
\* by the loop test and, with attempts left, by a resend of the request.
C14_SleepsParsedDelay ==
    [][ /\ sleeps' # sleeps
            => /\ Received
               /\ HasDelay(res', utc_now')
               /\ sleeps' = Append(sleeps,
                                   parse_delay(LastValue(res'), utc_now').val)
               /\ count' = Len(sleeps')
               /\ <<accumulated_duration'.secs, accumulated_duration'.nanos>>
                      = Total(sleeps')
               /\ pc' = "sleep"
        /\ (pc = "sleep" /\ pc' # "cancelled") => pc' = "while"
        /\ (pc = "while" /\ count < self.attempts)
            => (pc' = "send" /\ sends' = Append(sends, original))
      ]_vars

C14_Witness ==
    /\ self = [attempts |-> 3, max_delay_sec |-> 30, deadline_sec |-> 60]
    /\ res.status = 429
    /\ res.header = << <<"5">> >>
    /\ sleeps = <<Duration(5, 0), Duration(5, 0)>>
    /\ count = 2
    /\ accumulated_duration = Duration(10, 0)
    /\ Len(sends) = 3
    /\ pc = "send"

\* C15: the loop makes at most policy.attempts sends in one invocation (so
\* it cannot resend forever and reaches the next stage).
C15_AtMostAttemptsSends == Len(sends) <= self.attempts

\* C16: a parsed delay is accepted if and only if it is at most
\* policy.maxDelay and the accumulated delay plus it is at most
\* policy.deadline.
C16_AcceptedIffWithinCaps ==
    [][ (Received /\ HasDelay(res', utc_now'))
            => LET d == parse_delay(LastValue(res'), utc_now').val
               IN  (pc' = "sleep")
                   <=> /\ DurationLeq(d, Duration(self.max_delay_sec, 0))
                       /\ DurationLeq(DurationAdd(accumulated_duration, d),
                                      Duration(self.deadline_sec, 0))
      ]_vars

\* a step in which a parsed delay is rejected by one of the caps
Rejected == Received /\ HasDelay(res', utc_now') /\ pc' = "run_next"

\* C17, as claimed: a rejection by either cap leaves count and
\* accumulated_duration as they were before the check.
C17_RejectionKeepsState ==
    [][ Rejected
            => (count' = count /\ accumulated_duration' = accumulated_duration)
      ]_vars

\* C17, amended: a rejection by either cap leaves count as it was and
\* starts no suspension; accumulated_duration is unchanged by a rejection
\* at the per-attempt cap, and after a rejection at the deadline it is the
\* old value plus the rejected delay, above policy.deadline; count changes
\* only on acceptance, together with the addition of the delay.
C17_RejectionKeepsCount ==
    [][ /\ Rejected
            => LET d == parse_delay(LastValue(res'), utc_now').val
               IN  /\ count' = count
                   /\ sleeps' = sleeps
                   /\ \/ accumulated_duration' = accumulated_duration
                      \/ /\ accumulated_duration'
                              = DurationAdd(accumulated_duration, d)
                         /\ ~DurationLeq(accumulated_duration',
                                         Duration(self.deadline_sec, 0))
        /\ count' # count
            => /\ Received
               /\ HasDelay(res', utc_now')
               /\ pc' = "sleep"
               /\ accumulated_duration'
                      = DurationAdd(accumulated_duration,
                            parse_delay(LastValue(res'), utc_now').val)
      ]_vars

C17_Witness ==
    /\ exit = "deadline"
    /\ count = 1
    /\ sleeps = <<Duration(1, 0)>>
    /\ self.deadline_sec = 2
    /\ accumulated_duration = Duration(6, 0)
    /\ pc = "run_next"

\* C18: when the task is cancelled while handle waits for a sleep or for a
\* send, the invocation stops there: the cancellation itself sends nothing,
\* starts no suspension and calls no next stage, and nothing happens after
\* it.
C18_CancelStops ==
    [][ /\ pc # "cancelled"
        /\ pc' = "cancelled"
            => /\ pc \in {"send", "sleep", "next"}
               /\ sends' = sends
               /\ sleeps' = sleeps
               /\ nexts' = nexts
               /\ result' = NoResult
      ]_vars

C18_Witness ==
    /\ pc = "cancelled"
    /\ Len(sleeps) = 1
    /\ Len(sends) = 1
    /\ count < self.attempts
    /\ nexts = <<>>
    /\ result = NoResult

\* C19: with policy.attempts = 0 handle sends nothing and suspends never,
\* and calls the next stage once, with the original request.
C19_ZeroAttempts ==
    self.attempts = 0
        => /\ sends = <<>>
           /\ sleeps = <<>>
           /\ ~failed
           /\ Len(nexts) <= 1
           /\ pc \in {"next", "returned"} => nexts = <<original>>
           /\ pc = "returned" => result.from = "next"

C19_Witness ==
    /\ self.attempts = 0
    /\ pc = "returned"
    /\ sends = <<>>
    /\ nexts = <<original>>
    /\ result.ok

\* C20: sends and suspensions alternate, starting with a send: while the
\* loop runs there are as many sends as suspensions or one more; when the
\* loop ends by exhaustion the numbers are equal, when it ends by a break
\* there is one send more; with attempts >= 1 the request is sent before
\* the next stage is called.
C20_SendsAndSleepsAlternate ==
    /\ Len(sleeps) <= Len(sends)
    /\ Len(sends) <= Len(sleeps) + 1
    /\ exit = "exhausted" => Len(sends) = Len(sleeps)
    /\ exit \in {"status", "invalid", "max_delay", "deadline"}
           => Len(sends) = Len(sleeps) + 1
    /\ (self.attempts >= 1 /\ nexts # <<>>) => Len(sends) >= 1

====
